---- MODULE Spec2Model ----
(***************************************************************************)
(* slurp: load a JSON array, chunk it into batches, INSERT each batch into *)
(* SurrealDB over HTTP from a rayon pool, count ok/err, exit.              *)
(* Model of src/src/main.rs (main, build_insert_stmt).                     *)
(***************************************************************************)
EXTENDS Integers, Sequences, FiniteSets, TLC

\* ---------------------------------------------------------------- bounds
\* longest input array
MaxLen == 3
\* number of distinct item values an input array is drawn from
NumItemValues == 2
\* largest --batch value tried
MaxBatch == 2
\* largest --thread value tried
MaxThreads == 2
\* largest chunk size tried on the partitioning alone
MaxChunk == 4

\* ------------------------------------------------------ program constants
\* --verbosity accepts 0..=2
MaxVerbosity == 2
\* process exit codes
ExitOk == 0
ExitFailure == 1
ExitUsage == 2

ItemValues == 1..NumItemValues

\* HTTP status codes the endpoint answers with
StatusCodes == {200, 204, 500}

Min(a, b) == IF a < b THEN a ELSE b

\* all sequences over S of length 0..n
RECURSIVE SeqsUpTo(_, _)
SeqsUpTo(S, n) ==
    IF n = 0 THEN {<<>>}
    ELSE LET shorter == SeqsUpTo(S, n - 1)
         IN  shorter \cup {Append(s, x) : s \in {t \in shorter : Len(t) = n - 1}, x \in S}

\* what --data may point at: nothing readable, text that is not JSON, a JSON
\* value that is no array, or a JSON array of n items; the run never looks
\* into an item, so the items of a file are the tokens 1..n
InputFiles ==
    {[kind |-> "unreadable", items |-> <<>>],
     [kind |-> "invalid_json", items |-> <<>>],
     [kind |-> "not_array", items |-> <<>>]}
    \cup {[kind |-> "array", items |-> [i \in 1..n |-> i]] : n \in 0..MaxLen}

VARIABLES
    pc,          \* position of main
    args,        \* parsed Args: batch, threads, verbosity, dry_run
    argv,        \* the values given on the command line
    items,       \* Vec<Value> loaded from the file
    batches,     \* Vec<Vec<Value>>
    pending,     \* indices of batches no worker has taken yet
    wpc,         \* per pool thread: "idle", "built", "inflight"
    cur,         \* per pool thread: the batch index it is working on (0: none)
    acc,         \* per pool thread: fold accumulator <<ok, err>>
    built,       \* per batch: result of build_insert_stmt ("none", "ok", "err")
    requests,    \* per batch: number of HTTP requests sent
    resp,        \* per batch: what send() returned (NoResp until it returns)
    outcome,     \* per batch: the sequence of Results the map closure returned
    ok_count,
    err_count,
    reduced,     \* the fold/reduce has produced (ok_count, err_count)
    poolBuilt,   \* the rayon pool exists
    input,       \* what the --data file turned out to be ("none" before the load)
    ended,       \* how the process ended ("no" while it runs)
    exitCode     \* the process exit code, meaningful when pc = "exit"

vars == <<pc, args, argv, items, batches, pending, wpc, cur, acc, built, requests,
          resp, outcome, ok_count, err_count, reduced, poolBuilt, input, ended,
          exitCode>>

NoArgs == [batch |-> 0, threads |-> 0, verbosity |-> 0, dry_run |-> FALSE]
NoResp == [transport |-> "none", status |-> 0, body |-> "unread"]

Init ==
    /\ pc = "parse"
    /\ args = NoArgs
    /\ argv = NoArgs
    /\ items = <<>>
    /\ batches = <<>>
    /\ pending = {}
    /\ wpc = <<>>
    /\ cur = <<>>
    /\ acc = <<>>
    /\ built = <<>>
    /\ requests = <<>>
    /\ resp = <<>>
    /\ outcome = <<>>
    /\ ok_count = 0
    /\ err_count = 0
    /\ reduced = FALSE
    /\ poolBuilt = FALSE
    /\ input = "none"
    /\ ended = "no"
    /\ exitCode = ExitOk

\* ------------------------------------------------------------- main thread
\* the process ends: clap's error exit (2), main returning Err (the runtime
\* reports it and exits with 1), main returning Ok (0), std::process::exit(1)
ExitCodeOf(how) ==
    CASE how = "clap_error" -> ExitUsage
      [] how = "main_err" -> ExitFailure
      [] how = "process_exit" -> ExitFailure
      [] how = "main_ok" -> ExitOk

Exit(how) ==
    /\ pc' = "exit"
    /\ ended' = how
    /\ exitCode' = ExitCodeOf(how)

\* mutant: the value parsers of --batch and --thread carry no range
clap_rejectsNoRange(b, t, v) == v > MaxVerbosity

\* the value parsers: --batch range(1..), --thread range(1..),
\* --verbosity range(0..=2)
clap_rejects(b, t, v) == b < 1 \/ t < 1 \/ v > MaxVerbosity

\* args.rs, Args::validate (a second front end for the same options, which
\* main.rs does not use): TRUE when it bails, and parse() then exits with 2;
\* its --port check has no counterpart in main.rs
validate_bails(a) == a.batch = 0 \/ a.threads = 0 \/ a.verbosity > 2

\* Args::parse(): clap rejects --batch 0, --thread 0 and --verbosity > 2
ParseArgs ==
    /\ pc = "parse"
    /\ \E b \in 0..MaxBatch, t \in 0..MaxThreads, v \in 0..(MaxVerbosity + 1), d \in BOOLEAN :
          /\ argv' = [batch |-> b, threads |-> t, verbosity |-> v, dry_run |-> d]
          /\ IF clap_rejects(b, t, v)
             THEN /\ Exit("clap_error")
                  /\ UNCHANGED args
             ELSE /\ args' = [batch |-> b, threads |-> t, verbosity |-> v, dry_run |-> d]
                  /\ pc' = "load"
                  /\ UNCHANGED <<ended, exitCode>>
    /\ UNCHANGED <<items, batches, pending, wpc, cur, acc, built, requests, resp,
                   outcome, ok_count, err_count, reduced, poolBuilt, input>>

\* mutant: chunks_exact, which leaves out a last piece shorter than n
RECURSIVE chunksExact(_, _)
chunksExact(s, n) ==
    IF Len(s) < n THEN <<>>
    ELSE <<SubSeq(s, 1, n)>> \o chunksExact(SubSeq(s, n + 1, Len(s)), n)

\* slice::chunks(n): consecutive pieces of n items, the last one shorter
RECURSIVE chunks(_, _)
chunks(s, n) ==
    IF s = <<>> THEN <<>>
    ELSE LET k == Min(n, Len(s))
         IN  <<SubSeq(s, 1, k)>> \o chunks(SubSeq(s, k + 1, Len(s)), n)

\* mutant: a JSON value that is no array is taken as an array of one item
loadWrapping(f) ==
    IF f.kind = "array" THEN [ok |-> TRUE, items |-> f.items]
    ELSE IF f.kind = "not_array" THEN [ok |-> TRUE, items |-> <<1>>]
    ELSE [ok |-> FALSE, items |-> <<>>]

\* fs::read_to_string(..)?, json::from_str(..)?, as_array().ok_or_else(..)?:
\* the items of the array, or the error main returns
load(f) ==
    IF f.kind = "array" THEN [ok |-> TRUE, items |-> f.items]
    ELSE [ok |-> FALSE, items |-> <<>>]

\* mutant: the early return on an empty array is missing
is_emptyNever(s) == FALSE

\* items.is_empty()
is_empty(s) == s = <<>>

\* load the file; an empty array ends the run, anything else is chunked
Load ==
    /\ pc = "load"
    /\ \E f \in InputFiles :
          /\ input' = f.kind
          /\ IF ~load(f).ok
             THEN /\ Exit("main_err")
                  /\ UNCHANGED <<items, batches>>
             ELSE /\ items' = load(f).items
                  /\ IF is_empty(load(f).items)
                     THEN /\ Exit("main_ok")
                          /\ UNCHANGED batches
                     ELSE /\ batches' = chunks(load(f).items, args.batch)
                          /\ pc' = "client"
                          /\ UNCHANGED <<ended, exitCode>>
    /\ UNCHANGED <<args, argv, pending, wpc, cur, acc, built, requests, resp, outcome,
                   ok_count, err_count, reduced, poolBuilt>>

\* Client::builder().timeout(120 s).build()?
BuildClient ==
    /\ pc = "client"
    /\ \/ Exit("main_err")
       \/ /\ pc' = "pool"
          /\ UNCHANGED <<ended, exitCode>>
    /\ UNCHANGED <<args, argv, items, batches, pending, wpc, cur, acc, built, requests,
                   resp, outcome, ok_count, err_count, reduced, poolBuilt, input>>

\* mutant: the pool is built one thread larger than --thread asks for
PoolThreadsOneMore(a) == 1..(a.threads + 1)

\* .num_threads(args.threads): the threads of the pool
PoolThreads(a) == 1..a.threads

\* ThreadPoolBuilder::new().num_threads(args.threads).build()? and install:
\* the pool's threads are free, every batch index waits to be taken
BuildPool ==
    /\ pc = "pool"
    /\ \/ /\ Exit("main_err")
          /\ UNCHANGED <<pending, wpc, cur, acc, built, requests, resp, outcome,
                         poolBuilt>>
       \/ /\ pc' = "run"
          /\ poolBuilt' = TRUE
          /\ pending' = 1..Len(batches)
          /\ wpc' = [w \in PoolThreads(args) |-> "idle"]
          /\ cur' = [w \in PoolThreads(args) |-> 0]
          /\ acc' = [w \in PoolThreads(args) |-> <<0, 0>>]
          /\ built' = [k \in 1..Len(batches) |-> "none"]
          /\ requests' = [k \in 1..Len(batches) |-> 0]
          /\ resp' = [k \in 1..Len(batches) |-> NoResp]
          /\ outcome' = [k \in 1..Len(batches) |-> <<>>]
          /\ UNCHANGED <<ended, exitCode>>
    /\ UNCHANGED <<args, argv, items, batches, ok_count, err_count, reduced, input>>

\* ------------------------------------------------------------ pool threads
\* Each pool thread runs one map closure at a time, start to end (send() is a
\* blocking call), and feeds the closure's result into a fold accumulator of
\* its own; the accumulators are summed by the reduce.
Workers == DOMAIN wpc

\* the fold step: |(ok, err), res| if res.is_ok() {(ok+1, err)} else {(ok, err+1)}
fold(a, res) == IF res = "Ok" THEN <<a[1] + 1, a[2]>> ELSE <<a[1], a[2] + 1>>

\* mutant: once any batch has failed, every later batch is reported failed
\* (a short-circuiting collect instead of the counting fold)
ReturnShortCircuit(w, k, res) ==
    LET r == IF \E j \in DOMAIN outcome : outcome[j] = <<"Err">> THEN "Err" ELSE res
    IN  /\ outcome' = [outcome EXCEPT ![k] = Append(@, r)]
        /\ acc' = [acc EXCEPT ![w] = fold(@, r)]
        /\ wpc' = [wpc EXCEPT ![w] = "idle"]
        /\ cur' = [cur EXCEPT ![w] = 0]

\* the map closure returned res for batch k on thread w: the value goes
\* straight into the thread's fold accumulator and the thread is free again
Return(w, k, res) ==
    /\ outcome' = [outcome EXCEPT ![k] = Append(@, res)]
    /\ acc' = [acc EXCEPT ![w] = fold(@, res)]
    /\ wpc' = [wpc EXCEPT ![w] = "idle"]
    /\ cur' = [cur EXCEPT ![w] = 0]

\* mutant: fail fast, nothing more is taken once a batch has failed
queuedFailFast(p, o) == IF \E j \in DOMAIN o : o[j] = <<"Err">> THEN {} ELSE p

\* batches.par_iter(): the batches a free pool thread may take next
queued(p, o) == p

\* mutant: a build error is swallowed and the batch goes on to the request
BuildIgnoresError(w) ==
    /\ pc = "run"
    /\ w \in Workers
    /\ wpc[w] = "idle"
    /\ \E k \in queued(pending, outcome), r \in {"ok", "err"} :
          /\ pending' = pending \ {k}
          /\ built' = [built EXCEPT ![k] = r]
          /\ wpc' = [wpc EXCEPT ![w] = "built"]
          /\ cur' = [cur EXCEPT ![w] = k]
          /\ UNCHANGED <<outcome, acc>>
    /\ UNCHANGED <<pc, args, argv, items, batches, requests, resp, ok_count, err_count,
                   reduced, poolBuilt, input, ended, exitCode>>

\* mutant: a build error is not kept as the batch's result but leaves the
\* pool and main as an error
BuildPropagates(w) ==
    /\ pc = "run"
    /\ w \in Workers
    /\ wpc[w] = "idle"
    /\ \E k \in queued(pending, outcome), r \in {"ok", "err"} :
          /\ pending' = pending \ {k}
          /\ built' = [built EXCEPT ![k] = r]
          /\ IF r = "err"
             THEN /\ Exit("main_err")
                  /\ UNCHANGED <<wpc, cur, outcome, acc>>
             ELSE /\ wpc' = [wpc EXCEPT ![w] = "built"]
                  /\ cur' = [cur EXCEPT ![w] = k]
                  /\ UNCHANGED <<outcome, acc, pc, ended, exitCode>>
    /\ UNCHANGED <<args, argv, items, batches, requests, resp, ok_count, err_count,
                   reduced, poolBuilt, input>>

\* a free pool thread takes a batch and runs build_insert_stmt(&args.table, batch)?
\* rayon hands the indices out by work stealing, so any waiting batch may be
\* next; serde_json::to_string returns a Result, and its Err leaves the
\* closure through the ? as the batch's result
Build(w) ==
    /\ pc = "run"
    /\ w \in Workers
    /\ wpc[w] = "idle"
    /\ \E k \in queued(pending, outcome), r \in {"ok", "err"} :
          /\ pending' = pending \ {k}
          /\ built' = [built EXCEPT ![k] = r]
          /\ IF r = "err"
             THEN Return(w, k, "Err")
             ELSE /\ wpc' = [wpc EXCEPT ![w] = "built"]
                  /\ cur' = [cur EXCEPT ![w] = k]
                  /\ UNCHANGED <<outcome, acc>>
    /\ UNCHANGED <<pc, args, argv, items, batches, requests, resp, ok_count, err_count,
                   reduced, poolBuilt, input, ended, exitCode>>

\* mutant: the dry-run check is missing, the request is always sent
SubmitAlways(w) ==
    /\ pc = "run"
    /\ w \in Workers
    /\ wpc[w] = "built"
    /\ requests' = [requests EXCEPT ![cur[w]] = @ + 1]
    /\ wpc' = [wpc EXCEPT ![w] = "inflight"]
    /\ UNCHANGED <<cur, acc, outcome>>
    /\ UNCHANGED <<pc, args, argv, items, batches, pending, built, resp, ok_count,
                   err_count, reduced, poolBuilt, input, ended, exitCode>>

\* if args.dry_run { return Ok(()) }  else  client.post(..).body(stmt).send()
Submit(w) ==
    /\ pc = "run"
    /\ w \in Workers
    /\ wpc[w] = "built"
    /\ IF args.dry_run
       THEN /\ Return(w, cur[w], "Ok")
            /\ UNCHANGED requests
       ELSE /\ requests' = [requests EXCEPT ![cur[w]] = @ + 1]
            /\ wpc' = [wpc EXCEPT ![w] = "inflight"]
            /\ UNCHANGED <<cur, acc, outcome>>
    /\ UNCHANGED <<pc, args, argv, items, batches, pending, built, resp, ok_count,
                   err_count, reduced, poolBuilt, input, ended, exitCode>>

\* mutant: only 200 counts as success
is_successOnly200(status) == status = 200

\* StatusCode::is_success: 200..=299
is_success(status) == status >= 200 /\ status <= 299

\* what send() can return, with the result of r.text() where the code calls it:
\* on a success status only at verbosity >= 2, on any other status always
Responses(verbosity) ==
    {[transport |-> "err", status |-> 0, body |-> "unread"]}
    \cup {r \in [transport : {"ok"}, status : StatusCodes, body : {"unread", "ok", "failed"}] :
            (r.body = "unread") = (is_success(r.status) /\ verbosity < 2)}

\* mutant: a success response whose body cannot be read counts as a failure
classifyBodyStrict(r) ==
    IF r.transport = "ok" /\ is_success(r.status) /\ r.body # "failed" THEN "Ok" ELSE "Err"

\* match resp { Ok(r) if r.status().is_success() => Ok(()), Ok(r) => Err, Err(e) => Err }
classify(r) ==
    IF r.transport = "ok" /\ is_success(r.status) THEN "Ok" ELSE "Err"

\* mutant: a failed submission is sent once more
RespondRetry(w) ==
    /\ pc = "run"
    /\ w \in Workers
    /\ wpc[w] = "inflight"
    /\ \E r \in Responses(args.verbosity) :
          /\ resp' = [resp EXCEPT ![cur[w]] = r]
          /\ IF classify(r) = "Err" /\ requests[cur[w]] < 2
             THEN /\ wpc' = [wpc EXCEPT ![w] = "built"]
                  /\ UNCHANGED <<cur, acc, outcome>>
             ELSE Return(w, cur[w], classify(r))
    /\ UNCHANGED <<pc, args, argv, items, batches, pending, built, requests, ok_count,
                   err_count, reduced, poolBuilt, input, ended, exitCode>>

\* send() returns on thread w
Respond(w) ==
    /\ pc = "run"
    /\ w \in Workers
    /\ wpc[w] = "inflight"
    /\ \E r \in Responses(args.verbosity) :
          /\ resp' = [resp EXCEPT ![cur[w]] = r]
          /\ Return(w, cur[w], classify(r))
    /\ UNCHANGED <<pc, args, argv, items, batches, pending, built, requests, ok_count,
                   err_count, reduced, poolBuilt, input, ended, exitCode>>

\* ------------------------------------------------------------- aggregation
\* mutant: the reduce keeps one accumulator and drops the others
SumAccLast(a, i, n) == IF n = 0 THEN 0 ELSE a[n][i]

RECURSIVE SumAcc(_, _, _)
SumAcc(a, i, n) == IF n = 0 THEN 0 ELSE a[n][i] + SumAcc(a, i, n - 1)

\* .reduce(|| (0, 0), |a, b| (a.0 + b.0, a.1 + b.1)) once every batch is folded
Reduce ==
    /\ pc = "run"
    /\ pending = {}
    /\ \A w \in Workers : wpc[w] = "idle"
    /\ ok_count' = SumAcc(acc, 1, Len(acc))
    /\ err_count' = SumAcc(acc, 2, Len(acc))
    /\ reduced' = TRUE
    /\ pc' = "report"
    /\ UNCHANGED <<args, argv, items, batches, pending, wpc, cur, acc, built, requests,
                   resp, outcome, poolBuilt, input, ended, exitCode>>

\* mutant: the run only counts as failed when no batch succeeded
ReportLenient ==
    /\ pc = "report"
    /\ IF err_count > 0 /\ ok_count = 0 THEN Exit("process_exit") ELSE Exit("main_ok")
    /\ UNCHANGED <<args, argv, items, batches, pending, wpc, cur, acc, built, requests,
                   resp, outcome, ok_count, err_count, reduced, poolBuilt, input>>

\* mutant: the wrong counter is tested
ReportSwapped ==
    /\ pc = "report"
    /\ IF ok_count > 0 THEN Exit("process_exit") ELSE Exit("main_ok")
    /\ UNCHANGED <<args, argv, items, batches, pending, wpc, cur, acc, built, requests,
                   resp, outcome, ok_count, err_count, reduced, poolBuilt, input>>

\* if err_count > 0 { std::process::exit(1) } else { Ok(()) }
Report ==
    /\ pc = "report"
    /\ IF err_count > 0 THEN Exit("process_exit") ELSE Exit("main_ok")
    /\ UNCHANGED <<args, argv, items, batches, pending, wpc, cur, acc, built, requests,
                   resp, outcome, ok_count, err_count, reduced, poolBuilt, input>>

Next ==
    \/ ParseArgs
    \/ Load
    \/ BuildClient
    \/ BuildPool
    \/ \E w \in Workers : Build(w)
    \/ \E w \in Workers : Submit(w)
    \/ \E w \in Workers : Respond(w)
    \/ Reduce
    \/ Report

Spec == Init /\ [][Next]_vars

\* The pool threads are OS threads and main is blocked in install(): every
\* thread that can take a step eventually does, send() returns (the client
\* has a 120 s timeout), and main goes on once the pool is done.
FairSpec ==
    /\ Spec
    /\ \A w \in 1..MaxThreads : WF_vars(Build(w) \/ Submit(w) \/ Respond(w))
    /\ WF_vars(Reduce)
    /\ WF_vars(Report)

\* --------------------------------------------- the partitioning on its own
\* items.chunks(args.batch) applied to every non-empty array of up to MaxLen
\* items (equal items included) and every batch size up to MaxChunk
ChunkInit ==
    /\ pc = "chunk"
    /\ args \in {[NoArgs EXCEPT !.batch = b] : b \in 1..MaxChunk}
    /\ argv = args
    /\ items \in SeqsUpTo(ItemValues, MaxLen) \ {<<>>}
    /\ batches = <<>>
    /\ pending = {}
    /\ wpc = <<>>
    /\ cur = <<>>
    /\ acc = <<>>
    /\ built = <<>>
    /\ requests = <<>>
    /\ resp = <<>>
    /\ outcome = <<>>
    /\ ok_count = 0
    /\ err_count = 0
    /\ reduced = FALSE
    /\ poolBuilt = FALSE
    /\ input = "array"
    /\ ended = "no"
    /\ exitCode = ExitOk

\* let batches = items.chunks(args.batch).map(|c| c.to_vec()).collect()
Chunk ==
    /\ pc = "chunk"
    /\ batches' = chunks(items, args.batch)
    /\ pc' = "chunked"
    /\ UNCHANGED <<args, argv, items, pending, wpc, cur, acc, built, requests, resp,
                   outcome, ok_count, err_count, reduced, poolBuilt, input, ended,
                   exitCode>>

ChunkSpec == ChunkInit /\ [][Chunk]_vars

\* ------------------------------------------- the statement text on its own
\* serde_json::Value, as far as the items tried here go: null, a string, a
\* number, an object with one key
JNull == [t |-> "null"]
JStr(s) == [t |-> "str", s |-> s]
JNum(n) == [t |-> "num", n |-> n]
JObj(k, v) == [t |-> "obj", k |-> k, v |-> v]

\* the items tried: {"a":1} .. {"a":MaxLen}, null and "x"
JsonItems == {JObj("a", JNum(n)) : n \in 1..MaxLen} \cup {JNull, JStr("x")}

\* the table names tried
Tables == {"t", "person"}

\* serde_json::to_string of one Value: compact, no white space
RECURSIVE serialize(_)
serialize(v) ==
    CASE v.t = "null" -> "null"
      [] v.t = "str" -> "\"" \o v.s \o "\""
      [] v.t = "num" -> ToString(v.n)
      [] v.t = "obj" -> "{\"" \o v.k \o "\":" \o serialize(v.v) \o "}"

\* mutant: the array is written with a space after each comma
to_stringSpaced(batch) ==
    LET RECURSIVE elems(_)
        elems(b) == IF Len(b) = 1 THEN serialize(b[1])
                    ELSE serialize(b[1]) \o ", " \o elems(Tail(b))
    IN  IF batch = <<>> THEN "[]" ELSE "[" \o elems(batch) \o "]"

\* serde_json::to_string(batch): the items as one compact JSON array
to_string(batch) ==
    LET RECURSIVE elems(_)
        elems(b) == IF Len(b) = 1 THEN serialize(b[1])
                    ELSE serialize(b[1]) \o "," \o elems(Tail(b))
    IN  IF batch = <<>> THEN "[]" ELSE "[" \o elems(batch) \o "]"

\* format!("INSERT INTO {table} {json_array} RETURN NONE;")
build_insert_stmt(table, batch) ==
    "INSERT INTO " \o table \o " " \o to_string(batch) \o " RETURN NONE;"

\* every non-empty array of up to MaxLen of these items, every batch size up
\* to MaxBatch, every table name; here args carries the table name and built
\* holds the statement text
StmtInit ==
    /\ pc = "stmt"
    /\ \E b \in 1..MaxBatch, tb \in Tables :
          args = [batch |-> b, threads |-> 0, verbosity |-> 0, dry_run |-> FALSE,
                  table |-> tb]
    /\ argv = args
    /\ items \in SeqsUpTo(JsonItems, MaxLen) \ {<<>>}
    /\ batches = <<>>
    /\ pending = {}
    /\ wpc = <<>>
    /\ cur = <<>>
    /\ acc = <<>>
    /\ built = <<>>
    /\ requests = <<>>
    /\ resp = <<>>
    /\ outcome = <<>>
    /\ ok_count = 0
    /\ err_count = 0
    /\ reduced = FALSE
    /\ poolBuilt = FALSE
    /\ input = "array"
    /\ ended = "no"
    /\ exitCode = ExitOk

StmtUnchanged ==
    UNCHANGED <<args, argv, items, pending, wpc, cur, acc, requests, resp, outcome,
                ok_count, err_count, reduced, poolBuilt, input, ended, exitCode>>

\* let batches = items.chunks(args.batch)...
StmtChunk ==
    /\ pc = "stmt"
    /\ batches' = chunks(items, args.batch)
    /\ built' = [k \in 1..Len(chunks(items, args.batch)) |-> "none"]
    /\ pc' = "stmt_build"
    /\ StmtUnchanged

\* let stmt = build_insert_stmt(&args.table, batch)? for one of the batches
StmtBuild ==
    /\ pc = "stmt_build"
    /\ \E k \in DOMAIN built :
          /\ built[k] = "none"
          /\ built' = [built EXCEPT ![k] = build_insert_stmt(args.table, batches[k])]
    /\ UNCHANGED <<pc, batches>>
    /\ StmtUnchanged

StmtNext == StmtChunk \/ StmtBuild

StmtSpec == StmtInit /\ [][StmtNext]_vars

\* ---------------------------------------------- the aggregation on its own
\* mutant: the merge keeps only the right-hand error count
reduce_opLossy(a, b) == <<a[1] + b[1], b[2]>>

\* the reduce operator: |a, b| (a.0 + b.0, a.1 + b.1)
reduce_op(a, b) == <<a[1] + b[1], a[2] + b[2]>>

\* a fixed collection of up to MaxLen outcomes, up to MaxThreads fold
\* accumulators starting at the fold identity (0, 0)
AggInit ==
    /\ pc = "agg"
    /\ \E n \in 1..MaxLen :
          /\ outcome \in [1..n -> {<<"Ok">>, <<"Err">>}]
          /\ pending = 1..n
    /\ \E t \in 1..MaxThreads : acc = [w \in 1..t |-> <<0, 0>>]
    /\ args = NoArgs
    /\ argv = NoArgs
    /\ items = <<>>
    /\ batches = <<>>
    /\ wpc = <<>>
    /\ cur = <<>>
    /\ built = <<>>
    /\ requests = <<>>
    /\ resp = <<>>
    /\ ok_count = 0
    /\ err_count = 0
    /\ reduced = FALSE
    /\ poolBuilt = FALSE
    /\ input = "array"
    /\ ended = "no"
    /\ exitCode = ExitOk

AggUnchanged ==
    UNCHANGED <<args, argv, items, batches, wpc, cur, built, requests, resp, outcome,
                poolBuilt, input, ended, exitCode>>

\* any outcome not yet counted completes next and is folded into any of the
\* accumulators
AggFold ==
    /\ pc = "agg"
    /\ \E k \in pending, w \in DOMAIN acc :
          /\ acc' = [acc EXCEPT ![w] = fold(@, outcome[k][1])]
          /\ pending' = pending \ {k}
    /\ UNCHANGED <<pc, ok_count, err_count, reduced>>
    /\ AggUnchanged

\* any two accumulators are merged by the reduce operator, in either order
AggMerge ==
    /\ pc = "agg"
    /\ \E v, w \in DOMAIN acc :
          /\ v # w
          /\ acc' = [x \in DOMAIN acc \ {v} |->
                       IF x = w THEN reduce_op(acc[w], acc[v]) ELSE acc[x]]
    /\ UNCHANGED <<pc, pending, ok_count, err_count, reduced>>
    /\ AggUnchanged

\* everything is folded and merged: the last accumulator, merged with the
\* reduce identity (0, 0), is (ok_count, err_count)
AggDone ==
    /\ pc = "agg"
    /\ pending = {}
    /\ \E w \in DOMAIN acc :
          /\ DOMAIN acc = {w}
          /\ ok_count' = reduce_op(<<0, 0>>, acc[w])[1]
          /\ err_count' = reduce_op(<<0, 0>>, acc[w])[2]
    /\ reduced' = TRUE
    /\ pc' = "agg_done"
    /\ UNCHANGED <<pending, acc>>
    /\ AggUnchanged

AggNext == AggFold \/ AggMerge \/ AggDone

AggSpec == AggInit /\ [][AggNext]_vars

\* ================================================================ claims
T == args.threads
dispatched == pc \in {"run", "report", "exit"} /\ poolBuilt

\* batches whose request has been sent and whose send() has not returned
InFlight == {k \in DOMAIN requests : requests[k] > 0 /\ resp[k] = NoResp}

\* the outcomes the batches have produced so far
CountOutcomes(res) == Cardinality({k \in DOMAIN outcome : res \in {outcome[k][i] : i \in DOMAIN outcome[k]}})

\* the sum of component i over the accumulators a
RECURSIVE SumOver(_, _)
SumOver(a, i) ==
    IF DOMAIN a = {} THEN 0
    ELSE LET w == CHOOSE x \in DOMAIN a : TRUE
         IN  a[w][i] + SumOver([x \in DOMAIN a \ {w} |-> a[x]], i)

\* C1: at every instant at most T batches are between the start of their
\* HTTP submit step and its result, and a request is only ever sent for a
\* batch while fewer than T batches are in that step.
C1_ConcurrencyBound ==
    /\ [](dispatched => T >= 1 /\ Cardinality(InFlight) <= T)
    /\ [][\A k \in DOMAIN requests :
             (k \in DOMAIN requests' /\ requests'[k] > requests[k])
                 => Cardinality(InFlight) < T]_vars

\* more batches than threads: T requests are in flight and a batch still waits
C1_Witness ==
    /\ pc = "run"
    /\ Cardinality(InFlight) = T
    /\ T > 1
    /\ pending # {}

\* C2: when a run that reached the dispatch stage has completed, every batch
\* has exactly one outcome, ok_count is the number of Ok outcomes, err_count
\* the number of Err outcomes, and they add up to the number of batches.
C2_Accounting ==
    (reduced /\ pc \in {"report", "exit"}) =>
        /\ \A k \in DOMAIN batches : Len(outcome[k]) = 1
        /\ ok_count = CountOutcomes("Ok")
        /\ err_count = CountOutcomes("Err")
        /\ ok_count + err_count = Len(batches)

\* a completed run in which two pool threads each folded outcomes and both
\* kinds of outcome occurred
C2_Witness ==
    /\ pc = "exit"
    /\ reduced
    /\ ok_count > 0
    /\ err_count > 0
    /\ \E v, w \in DOMAIN acc : v # w /\ acc[v] # <<0, 0>> /\ acc[w] # <<0, 0>>

\* the outcome batch j gets from what happened to batch j alone: its own
\* build result, the dry-run flag, its own transport result and status code
OwnOutcome(j) ==
    IF built[j] = "err" THEN "Err"
    ELSE IF args.dry_run THEN "Ok"
    ELSE IF resp[j].transport = "ok" /\ resp[j].status \in 200..299 THEN "Ok"
    ELSE "Err"

\* C3: outcome isolation. The outcome of a batch is a function of that
\* batch's own build result and response only, whatever happened to the
\* other batches and in whatever order; so two runs that differ only in
\* that batch k is made to fail give every batch j # k the same outcome.
C3_OutcomeIsolation ==
    \A j \in DOMAIN outcome :
        outcome[j] # <<>> => outcome[j] = <<OwnOutcome(j)>>

\* a batch succeeded after one batch failed to build and another one failed
\* on the network path
C3_Witness ==
    /\ ~args.dry_run
    /\ \E k, m, j \in DOMAIN outcome :
          /\ built[k] = "err" /\ outcome[k] = <<"Err">>
          /\ resp[m] # NoResp /\ outcome[m] = <<"Err">>
          /\ requests[j] = 1 /\ resp[j] = NoResp
    /\ \E w \in DOMAIN wpc : wpc[w] = "inflight"

RECURSIVE Concat(_)
Concat(ss) == IF ss = <<>> THEN <<>> ELSE Head(ss) \o Concat(Tail(ss))

RECURSIVE SumLen(_)
SumLen(ss) == IF ss = <<>> THEN 0 ELSE Len(Head(ss)) + SumLen(Tail(ss))

\* C4: a non-empty array of L items with batch size B >= 1 is partitioned
\* into ceil(L/B) batches; batch i (from 0) holds the items at positions
\* [i*B, min((i+1)*B, L)) in order; every batch has 1..B items; the sizes
\* sum to L; the batches concatenated in index order are the input.
C4_Partition ==
    pc = "chunked" =>
        LET L == Len(items)
            B == args.batch
            n == Len(batches)
        IN  /\ n = (L + B - 1) \div B
            /\ \A i \in 0..(n - 1) :
                  /\ Len(batches[i + 1]) = Min((i + 1) * B, L) - i * B
                  /\ \A j \in 1..Len(batches[i + 1]) : batches[i + 1][j] = items[i * B + j]
                  /\ Len(batches[i + 1]) >= 1
                  /\ Len(batches[i + 1]) <= B
            /\ SumLen(batches) = L
            /\ Concat(batches) = items

\* several batches, the last one shorter than B, and equal items in the input
C4_Witness ==
    /\ pc = "chunked"
    /\ Len(batches) > 1
    /\ Len(batches[Len(batches)]) < args.batch
    /\ \E i, j \in DOMAIN items : i # j /\ items[i] = items[j]

AllOutcomes ==
    /\ DOMAIN outcome = DOMAIN batches
    /\ \A k \in DOMAIN outcome : Len(outcome[k]) = 1

\* C5: no abort on first failure. Under fair scheduling, with every send()
\* returning, a run that reached the dispatch stage gives every batch its
\* outcome and reaches its final status, however many batches have failed;
\* and a batch that waits is never dropped: it stays pending until a pool
\* thread takes it and builds its statement.
C5_NoAbortOnFailure ==
    /\ (pc = "run") ~> AllOutcomes
    /\ (pc = "run") ~> (pc = "exit" /\ reduced /\ AllOutcomes)
    /\ [][\A k \in pending : k \in pending' \/ built'[k] # "none"]_vars

\* a completed run in which a batch succeeded although two others failed
C5_Witness ==
    /\ pc = "exit"
    /\ reduced
    /\ err_count > 1
    /\ ok_count > 0

NoRequests == \A k \in DOMAIN requests : requests[k] = 0 /\ resp[k] = NoResp
AllBuilt == \A k \in DOMAIN built : built[k] = "ok"
AllOk == \A k \in DOMAIN outcome : outcome[k] = <<"Ok">>
SomeErr == \E k \in DOMAIN outcome : outcome[k] = <<"Err">>

AllAnswered(s) ==
    \A k \in DOMAIN resp : resp[k].transport = "ok" /\ resp[k].status = s

\* C7: a completed run exits with 1 when err_count > 0, also when some
\* batches succeeded, and with 0 when err_count = 0; when every batch was
\* answered 500 the result is (0, total) and exit 1, when every batch was
\* answered 200 it is (total, 0) and exit 0.
C7_ExitPolicy ==
    (pc = "exit" /\ reduced) =>
        /\ err_count > 0 => exitCode = ExitFailure
        /\ err_count = 0 => exitCode = ExitOk
        /\ AllAnswered(500) =>
              ok_count = 0 /\ err_count = Len(batches) /\ exitCode = ExitFailure
        /\ AllAnswered(200) =>
              ok_count = Len(batches) /\ err_count = 0 /\ exitCode = ExitOk

\* partial success: some batches succeeded, one failed, exit code 1
C7_Witness ==
    /\ pc = "exit"
    /\ reduced
    /\ ok_count > 1
    /\ err_count = 1
    /\ exitCode = ExitFailure

InputError == input \in {"unreadable", "invalid_json", "not_array"}

NothingDispatched ==
    /\ batches = <<>>
    /\ ~poolBuilt
    /\ wpc = <<>>
    /\ built = <<>>
    /\ requests = <<>>
    /\ outcome = <<>>

\* C8: an unreadable file, invalid JSON or a JSON value that is no array
\* ends the run with a failure status; no statement is built, no pool
\* thread is started, no request is sent and no (ok, err) result is produced.
C8_InputErrorFatal ==
    InputError =>
        /\ pc = "exit"
        /\ exitCode # ExitOk
        /\ NothingDispatched
        /\ ~reduced

\* the input was valid JSON but not an array
C8_Witness ==
    /\ input = "not_array"
    /\ pc = "exit"
    /\ ended = "main_err"

\* C9: an empty input array ends the run successfully: no batch, no
\* statement, no request, exit code 0.
C9_EmptyInput ==
    (input = "array" /\ items = <<>>) =>
        /\ pc = "exit"
        /\ exitCode = ExitOk
        /\ NothingDispatched

\* the file held an empty array
C9_Witness ==
    /\ input = "array"
    /\ items = <<>>
    /\ pc = "exit"
    /\ ended = "main_ok"

\* C10 as stated: exit code 1 only in a run in which a batch failed, exit
\* code 0 only when the input was empty or every batch succeeded.
C10_ExitCodeMeaning ==
    pc = "exit" =>
        /\ exitCode = ExitFailure => SomeErr
        /\ exitCode = ExitOk =>
              (input = "array" /\ items = <<>>) \/ (reduced /\ AllOutcomes /\ AllOk)

\* C10 amended: exit code 1 only in a run in which a batch failed or in
\* which main returned an error before the dispatch (input error, HTTP
\* client or thread pool not built); exit code 0 only when the input was
\* empty or every batch succeeded.
C10_ExitCodes ==
    pc = "exit" =>
        /\ exitCode = ExitFailure =>
              \/ reduced /\ SomeErr
              \/ ended = "main_err" /\ ~poolBuilt /\ ~reduced /\ requests = <<>>
        /\ exitCode = ExitOk =>
              (input = "array" /\ items = <<>>) \/ (reduced /\ AllOutcomes /\ AllOk)

\* exit code 1 although the input was a good array and no batch was started
C10_Witness ==
    /\ pc = "exit"
    /\ exitCode = ExitFailure
    /\ input = "array"
    /\ batches # <<>>
    /\ outcome = <<>>

\* C11: the aggregate does not depend on the order in which the outcomes
\* complete nor on how they are grouped into partial tallies that are then
\* merged: whatever order and grouping a run of the aggregation takes, the
\* result is (number of Ok outcomes, number of Err outcomes) of the fixed
\* collection, and the tallies never hold more or less than what was folded.
C11_AggregationOrderFree ==
    /\ pc = "agg_done" =>
          /\ ok_count = CountOutcomes("Ok")
          /\ err_count = CountOutcomes("Err")
    /\ pc = "agg" =>
          \A i \in 1..2 :
              SumOver(acc, i) =
                  Cardinality({k \in DOMAIN outcome \ pending :
                                 outcome[k] = <<IF i = 1 THEN "Ok" ELSE "Err">>})

\* the outcomes complete out of index order (the first one is still
\* missing), both kinds occurred and two tallies hold a part each
C11_Witness ==
    /\ pc = "agg"
    /\ pending = {1}
    /\ \E v, w \in DOMAIN acc : v # w /\ acc[v][1] > 0 /\ acc[w][2] > 0

\* C12: a batch whose send() returned is classified by the transport result
\* and the status code alone: a transport failure gives Err, a response
\* with a status outside 200..299 gives Err whether or not its body could
\* be read, a response with a status in 200..299 gives Ok; nothing else
\* gives Ok.
C12_Classification ==
    \A k \in DOMAIN resp :
        resp[k] # NoResp =>
            /\ Len(outcome[k]) = 1
            /\ resp[k].transport = "err" => outcome[k][1] = "Err"
            /\ (resp[k].transport = "ok" /\ (resp[k].status < 200 \/ resp[k].status > 299))
                  => outcome[k][1] = "Err"
            /\ (resp[k].transport = "ok" /\ resp[k].status >= 200 /\ resp[k].status <= 299)
                  => outcome[k][1] = "Ok"
            /\ outcome[k][1] = "Ok"
                  => (resp[k].transport = "ok" /\ resp[k].status \in {200, 204})

\* one run with a transport failure, a 500 whose body could not be read and
\* a 204
C12_Witness ==
    \E k, m, j \in DOMAIN resp :
        /\ resp[k].transport = "err" /\ outcome[k] = <<"Err">>
        /\ resp[m].status = 500 /\ resp[m].body = "failed" /\ outcome[m] = <<"Err">>
        /\ resp[j].status = 204 /\ outcome[j] = <<"Ok">>

BuildFailed(k) == built[k] = "err"

\* C13: a statement-build failure stays in its batch. The batch gets Err,
\* no request is ever sent for it, the run does not end on an error from
\* main but goes on (it can always take a next step until it has exited),
\* and when it has completed every other batch was built and has its own
\* one outcome.
C13_BuildFailureLocal ==
    (\E k \in DOMAIN built : BuildFailed(k)) =>
        /\ \A k \in DOMAIN built :
              BuildFailed(k) =>
                  outcome[k] = <<"Err">> /\ requests[k] = 0 /\ resp[k] = NoResp
        /\ ended \in {"no", "process_exit"}
        /\ pc # "exit" => ENABLED Next
        /\ pc \in {"report", "exit"} =>
              /\ reduced
              /\ \A j \in DOMAIN built :
                    built[j] # "none" /\ outcome[j] = <<OwnOutcome(j)>>

\* a completed run in which one batch failed to build and another one was
\* built, sent and answered with success
C13_Witness ==
    /\ pc = "exit"
    /\ ended = "process_exit"
    /\ \E k, j \in DOMAIN built :
          /\ BuildFailed(k) /\ requests[k] = 0
          /\ built[j] = "ok" /\ requests[j] = 1 /\ outcome[j] = <<"Ok">>

\* C14: --batch 0 or --thread 0 is rejected with exit code 2 before the input
\* file is loaded; the array is never chunked with batch size 0 and the pool
\* is never built with 0 threads, so nothing is dispatched under such a
\* configuration. The checks of Args::validate in args.rs reject exactly the
\* command lines the value parsers of main.rs reject.
C14_InvalidConfigRejected ==
    /\ (pc # "parse" /\ (argv.batch = 0 \/ argv.threads = 0)) =>
          /\ pc = "exit"
          /\ ended = "clap_error"
          /\ exitCode = ExitUsage
          /\ input = "none"
          /\ items = <<>>
          /\ NothingDispatched
    /\ input # "none" => (args = argv /\ args.batch >= 1 /\ args.threads >= 1)
    /\ pc # "parse" => ((ended = "clap_error") = validate_bails(argv))
    /\ batches # <<>> => args.batch >= 1
    /\ poolBuilt => (args.threads >= 1 /\ Len(wpc) = args.threads)

\* the command line asked for batch size 0 with a valid thread count
C14_Witness ==
    /\ pc = "exit"
    /\ argv.batch = 0
    /\ argv.threads > 0
    /\ argv.verbosity <= MaxVerbosity
    /\ exitCode = ExitUsage

\* the text of an item, written out
Digits == <<"1", "2", "3", "4", "5", "6", "7", "8", "9">>
ItemText(v) ==
    IF v = JNull THEN "null"
    ELSE IF v = JStr("x") THEN "\"x\""
    ELSE "{\"a\":" \o Digits[v.v.n] \o "}"

\* the items of batch b as one compact JSON array, built up from the left
RECURSIVE ArrayBody(_, _)
ArrayBody(b, n) ==
    IF n = 0 THEN ""
    ELSE IF n = 1 THEN ItemText(b[1])
    ELSE ArrayBody(b, n - 1) \o "," \o ItemText(b[n])

ExampleItems == <<JObj("a", JNum(1)), JObj("a", JNum(2)), JObj("a", JNum(3))>>

\* C15: the statement built for a batch is "INSERT INTO " + table + " " +
\* the batch's items as one compact JSON array in batch order +
\* " RETURN NONE;"; equal batches give equal statements; and the array
\* [{"a":1},{"a":2},{"a":3}] with batch size 2 and table t gives the two
\* statements of the end-to-end scenario.
C15_Statement ==
    /\ \A k \in DOMAIN built :
          (pc = "stmt_build" /\ built[k] # "none") =>
              built[k] = "INSERT INTO " \o args.table \o " [" \o
                         ArrayBody(batches[k], Len(batches[k])) \o "] RETURN NONE;"
    /\ \A k, j \in DOMAIN built :
          (pc = "stmt_build" /\ built[k] # "none" /\ built[j] # "none"
             /\ batches[k] = batches[j]) => built[k] = built[j]
    /\ (pc = "stmt_build" /\ items = ExampleItems /\ args.batch = 2 /\ args.table = "t"
          /\ \A k \in DOMAIN built : built[k] # "none") =>
          built = <<"INSERT INTO t [{\"a\":1},{\"a\":2}] RETURN NONE;",
                    "INSERT INTO t [{\"a\":3}] RETURN NONE;">>

\* the end-to-end scenario, both statements built
C15_Witness ==
    /\ pc = "stmt_build"
    /\ items = ExampleItems
    /\ args.batch = 2
    /\ args.table = "t"
    /\ Len(built) = 2
    /\ \A k \in DOMAIN built : built[k] # "none"

\* C16: within a batch the steps go build, submit, classify. A request is
\* only sent for a batch whose statement was built successfully in an
\* earlier step; a response only arrives for a batch whose request was sent
\* in an earlier step; and outside dry-run a built batch only gets its
\* outcome in the step in which its response arrives. (Nothing orders the
\* steps of different batches: see the witness.)
C16_StepOrder ==
    /\ [](\A k \in DOMAIN requests :
            /\ requests[k] > 0 => built[k] = "ok"
            /\ resp[k] # NoResp => requests[k] > 0
            /\ (outcome[k] # <<>> /\ built[k] = "ok" /\ ~args.dry_run) => resp[k] # NoResp)
    /\ [][\A k \in DOMAIN requests :
             /\ (k \in DOMAIN requests' /\ requests'[k] > requests[k])
                   => (built[k] = "ok" /\ outcome[k] = <<>> /\ outcome'[k] = <<>>)
             /\ (k \in DOMAIN resp' /\ resp'[k] # resp[k])
                   => (requests[k] > 0 /\ resp[k] = NoResp /\ outcome[k] = <<>>)
             /\ (k \in DOMAIN outcome' /\ outcome'[k] # outcome[k]
                   /\ built[k] = "ok" /\ ~args.dry_run)
                   => (requests[k] > 0 /\ resp'[k] # NoResp)]_vars

\* a later batch has been built, sent and classified while an earlier one
\* is not even built, and a third one is in flight
C16_Witness ==
    \E j, k, m \in DOMAIN requests :
        /\ j < k
        /\ built[j] = "none"
        /\ resp[k] # NoResp /\ outcome[k] # <<>>
        /\ requests[m] > 0 /\ resp[m] = NoResp

RECURSIVE SumSeq(_)
SumSeq(q) == IF q = <<>> THEN 0 ELSE Head(q) + SumSeq(Tail(q))

\* C17: a batch is worked on by one pool thread and submitted at most once.
\* At any time at most one thread holds a batch, a batch that was taken is
\* never taken or built again, and no batch has more than one request; when
\* a run that is not a dry run has completed, a batch has exactly one
\* request if its statement was built and none otherwise, so the requests
\* add up to the number of batches that were built.
C17_SubmitOnce ==
    /\ [](\A k \in DOMAIN requests :
            /\ requests[k] <= 1
            /\ Cardinality({w \in DOMAIN cur : cur[w] = k}) <= 1
            /\ k \in pending => (built[k] = "none" /\ \A w \in DOMAIN cur : cur[w] # k)
            /\ (built[k] = "ok" /\ outcome[k] = <<>>) => \E w \in DOMAIN cur : cur[w] = k)
    /\ []((reduced /\ ~args.dry_run) =>
            /\ \A k \in DOMAIN requests :
                  requests[k] = IF built[k] = "ok" THEN 1 ELSE 0
            /\ SumSeq(requests) = Cardinality({k \in DOMAIN built : built[k] = "ok"}))
    /\ [][\A k \in DOMAIN built :
             (k \in DOMAIN built' /\ built[k] # "none")
                 => (built'[k] = built[k] /\ k \notin pending')]_vars

\* a completed run with requests for the batches that were built and none
\* for the one that was not, one of the requests having failed
C17_Witness ==
    /\ reduced
    /\ ~args.dry_run
    /\ SumSeq(requests) = 2
    /\ Len(requests) = 3
    /\ \E k \in DOMAIN outcome : requests[k] = 1 /\ outcome[k] = <<"Err">>

\* what the endpoint can answer at verbosity v, without the body reads
Answers(v) == {<<r.transport, r.status>> : r \in Responses(v)}

\* the endpoint can give the same answers at every verbosity
AnswersAgree == \A v \in 0..MaxVerbosity : Answers(v) = Answers(0)

\* C18: the verbosity has no effect on the result. The answers the endpoint
\* can give are the same at every verbosity, and a completed run's per-batch
\* outcomes, (ok_count, err_count) and exit code are fixed by the build
\* results, the dry-run flag and the transport results and status codes
\* alone (OwnOutcome mentions neither the verbosity nor a body read), so
\* two runs that differ only in verbosity, body reads included, agree.
C18_VerbosityNeutral ==
    /\ AnswersAgree
    /\ (reduced /\ pc \in {"report", "exit"}) =>
          /\ \A k \in DOMAIN outcome : outcome[k] = <<OwnOutcome(k)>>
          /\ ok_count = Cardinality({k \in DOMAIN outcome : OwnOutcome(k) = "Ok"})
          /\ err_count = Cardinality({k \in DOMAIN outcome : OwnOutcome(k) = "Err"})
          /\ pc = "exit" =>
                exitCode = IF \E k \in DOMAIN outcome : OwnOutcome(k) = "Err"
                           THEN ExitFailure ELSE ExitOk

\* a completed run at verbosity 2 in which the body of a success response
\* could not be read and the run still succeeded
C18_Witness ==
    /\ pc = "exit"
    /\ reduced
    /\ args.verbosity = 2
    /\ exitCode = ExitOk
    /\ \E k \in DOMAIN resp : resp[k].status = 200 /\ resp[k].body = "failed"
====
